---- MODULE Spec2Model ----
(***************************************************************************)
(* TeX-Bot: the guild-resource cache of TeXBot (src/utils.py) and the      *)
(* error helpers of the cogs (src/cogs/_utils.py).                         *)
(*                                                                         *)
(* Objects of the guild (roles, text channels) are identified by their     *)
(* snowflake id; the library updates a renamed object in place, so a       *)
(* cached reference is modelled by the id and its current name is the one  *)
(* the guild holds for that id.                                            *)
(*                                                                         *)
(* The cogs await the accessors (await self.bot.committee_role): the       *)
(* accessor is modelled as a coroutine whose body is the one of            *)
(* src/utils.py; that body has no suspension point, so it runs atomically. *)
(***************************************************************************)
EXTENDS Integers, Sequences, FiniteSets, TLC

VARIABLES
    guilds,             \* ids of the guilds the bot is in (discord.Bot.guilds)
    _css_guild,         \* TeXBot._css_guild: None or the guild's id
    roles,              \* css_guild.roles: role id -> current name
    text_channels,      \* css_guild.text_channels: channel id -> current name
    rules_channel,      \* css_guild.rules_channel: None or a channel id
    nextId,             \* the next snowflake id the platform hands out
    _committee_role,    \* the cache fields of TeXBot: None or an object's id
    _guest_role,
    _member_role,
    _archivist_role,
    _roles_channel,
    _general_channel,
    _welcome_channel,
    closed,             \* bot.close() has completed
    last                \* outcome of the most recent call into the bot's code

guildVars == <<guilds, _css_guild, roles, text_channels, rules_channel, nextId>>
cacheVars == <<_committee_role, _guest_role, _member_role, _archivist_role,
               _roles_channel, _general_channel, _welcome_channel>>
vars == <<guildVars, cacheVars, closed, last>>

\* ---------------------------------------------------------------- bounds
\* Snowflake ids are handed out increasing and never reused; at most MaxId
\* objects (roles and text channels together) are ever created.
MaxId == 2

\* ------------------------------------------------------------- constants
None == 0
DISCORD_GUILD_ID == 1

RoleNames == {"Committee", "Guest", "Member", "Archivist"}
ChannelNames == {"roles", "general", "welcome"}

\* ------------------------------------------------- outcome of a call
\* op: the property or method called; cached: the cache field it reads, as
\* the call found it; raised: the exception that left the call, or "None";
\* value: what it returned; lookup: it looked an object up by name; args:
\* what of its arguments the outcome depends on; choices: the set
\* autocomplete returned; effects: its calls on the context, the logger and
\* the bot, in order.  An event of the guild clears the record, so that it
\* always speaks of the guild as the call left it.
Idle == [op |-> "idle", cached |-> None, raised |-> "None", value |-> None,
         lookup |-> FALSE, args |-> <<>>, choices |-> {}, effects |-> <<>>]

Returned(op, c, v, lk) ==
    [Idle EXCEPT !.op = op, !.cached = c, !.value = v, !.lookup = lk]

Raised(op, c, exc) == [Idle EXCEPT !.op = op, !.cached = c, !.raised = exc]

\* ------------------------------------------------------ discord.utils.get
\* get(objs, id=i): the object of that id, or None.
get_by_id(objs, i) == IF i \in DOMAIN objs THEN i ELSE None

\* Mutant: the lookup takes any object, whatever its name.
get_by_name_AnyName(objs, n) == IF DOMAIN objs = {} THEN {None} ELSE DOMAIN objs

\* get(objs, name=n): the first object of that name in the order of the
\* guild's list (by position, which the model does not hold: any of the
\* matching objects may come first), or None.
get_by_name(objs, n) ==
    LET found == {i \in DOMAIN objs : objs[i] = n}
    IN  IF found = {} THEN {None} ELSE found

\* ----------------------------------------------------------- TeXBot
\* Mutant: css_guild tests its field alone and not bot.guilds.
GuildAvailable_FieldOnly == _css_guild # None

\* css_guild raises GuildDoesNotExist unless this holds.
GuildAvailable ==
    ~(_css_guild = None \/ get_by_id([g \in guilds |-> g], DISCORD_GUILD_ID) = None)

\* Mutant: only an empty cache is refreshed; the cached id is not checked.
NeedsLookup_EmptyOnly(cached, objs) == cached = None

\* The condition of an accessor's if: the cache is empty or its object is
\* no longer one of the guild's.
NeedsLookup(cached, objs) == cached = None \/ get_by_id(objs, cached) = None

\* Mutant: every read looks the object up by name again.
Refreshed_Always(cached, objs, n) == get_by_name(objs, n)

\* The values an accessor may leave in its cache field (and return).
Refreshed(cached, objs, n) ==
    IF NeedsLookup(cached, objs) THEN get_by_name(objs, n) ELSE {cached}

css_guild ==
    /\ ~closed
    /\ last' = IF GuildAvailable THEN Returned("css_guild", None, _css_guild, FALSE)
                                 ELSE Raised("css_guild", None, "GuildDoesNotExist")
    /\ UNCHANGED <<guildVars, cacheVars, closed>>

committee_role ==
    /\ ~closed
    /\ IF GuildAvailable
       THEN \E v \in Refreshed(_committee_role, roles, "Committee") :
               /\ _committee_role' = v
               /\ last' = Returned("committee_role", _committee_role, v, NeedsLookup(_committee_role, roles))
       ELSE /\ last' = Raised("committee_role", _committee_role, "GuildDoesNotExist")
            /\ UNCHANGED _committee_role
    /\ UNCHANGED <<guildVars, _guest_role, _member_role, _archivist_role,
                   _roles_channel, _general_channel, _welcome_channel, closed>>

guest_role ==
    /\ ~closed
    /\ IF GuildAvailable
       THEN \E v \in Refreshed(_guest_role, roles, "Guest") :
               /\ _guest_role' = v
               /\ last' = Returned("guest_role", _guest_role, v, NeedsLookup(_guest_role, roles))
       ELSE /\ last' = Raised("guest_role", _guest_role, "GuildDoesNotExist")
            /\ UNCHANGED _guest_role
    /\ UNCHANGED <<guildVars, _committee_role, _member_role, _archivist_role,
                   _roles_channel, _general_channel, _welcome_channel, closed>>

member_role ==
    /\ ~closed
    /\ IF GuildAvailable
       THEN \E v \in Refreshed(_member_role, roles, "Member") :
               /\ _member_role' = v
               /\ last' = Returned("member_role", _member_role, v, NeedsLookup(_member_role, roles))
       ELSE /\ last' = Raised("member_role", _member_role, "GuildDoesNotExist")
            /\ UNCHANGED _member_role
    /\ UNCHANGED <<guildVars, _committee_role, _guest_role, _archivist_role,
                   _roles_channel, _general_channel, _welcome_channel, closed>>

archivist_role ==
    /\ ~closed
    /\ IF GuildAvailable
       THEN \E v \in Refreshed(_archivist_role, roles, "Archivist") :
               /\ _archivist_role' = v
               /\ last' = Returned("archivist_role", _archivist_role, v, NeedsLookup(_archivist_role, roles))
       ELSE /\ last' = Raised("archivist_role", _archivist_role, "GuildDoesNotExist")
            /\ UNCHANGED _archivist_role
    /\ UNCHANGED <<guildVars, _committee_role, _guest_role, _member_role,
                   _roles_channel, _general_channel, _welcome_channel, closed>>

roles_channel ==
    /\ ~closed
    /\ IF GuildAvailable
       THEN \E v \in Refreshed(_roles_channel, text_channels, "roles") :
               /\ _roles_channel' = v
               /\ last' = Returned("roles_channel", _roles_channel, v,
                                   NeedsLookup(_roles_channel, text_channels))
       ELSE /\ last' = Raised("roles_channel", _roles_channel, "GuildDoesNotExist")
            /\ UNCHANGED _roles_channel
    /\ UNCHANGED <<guildVars, _committee_role, _guest_role, _member_role,
                   _archivist_role, _general_channel, _welcome_channel, closed>>

general_channel ==
    /\ ~closed
    /\ IF GuildAvailable
       THEN \E v \in Refreshed(_general_channel, text_channels, "general") :
               /\ _general_channel' = v
               /\ last' = Returned("general_channel", _general_channel, v,
                                   NeedsLookup(_general_channel, text_channels))
       ELSE /\ last' = Raised("general_channel", _general_channel, "GuildDoesNotExist")
            /\ UNCHANGED _general_channel
    /\ UNCHANGED <<guildVars, _committee_role, _guest_role, _member_role,
                   _archivist_role, _roles_channel, _welcome_channel, closed>>

\* welcome_channel prefers the guild's rules channel to the channel named
\* "welcome" when it refreshes.
RefreshedWelcome ==
    IF NeedsLookup(_welcome_channel, text_channels)
    THEN IF rules_channel # None THEN {rules_channel}
                                 ELSE get_by_name(text_channels, "welcome")
    ELSE {_welcome_channel}

welcome_channel ==
    /\ ~closed
    /\ IF GuildAvailable
       THEN \E v \in RefreshedWelcome :
               /\ _welcome_channel' = v
               /\ last' = Returned("welcome_channel", _welcome_channel, v,
                                   NeedsLookup(_welcome_channel, text_channels))
       ELSE /\ last' = Raised("welcome_channel", _welcome_channel, "GuildDoesNotExist")
            /\ UNCHANGED _welcome_channel
    /\ UNCHANGED <<guildVars, _committee_role, _guest_role, _member_role,
                   _archivist_role, _roles_channel, _general_channel, closed>>

\* ------------------------------------------------------------ TeXBotCog
\* A str | None argument: "" stands for None and for the empty string, which
\* the code's truth tests treat alike.  `args` keeps of a call's arguments
\* what its outcome depends on.
Truthy(s) == s # ""

ErrorCodes == {"", "E1042"}
Messages == {"", "Could not find the role"}
LoggingMessages == {"", "Role lookup failed"}

\* send_error: the committee role is read only when an error code is given;
\* GuildDoesNotExist raised by that read leaves the method before
\* ctx.respond.  `value` keeps the role the message mentions (None: the
\* plain word "committee").
send_error ==
    /\ ~closed
    /\ \E error_code \in ErrorCodes, message \in Messages,
          logging_message \in LoggingMessages :
          LET args == <<Truthy(error_code), Truthy(logging_message)>>
              log  == IF Truthy(logging_message) THEN <<"logging.error">> ELSE <<>>
              sent == <<"ctx.respond(ephemeral=True)">> \o log
          IN  IF ~Truthy(error_code)
              THEN /\ last' = [Returned("send_error", _committee_role, None, FALSE)
                                 EXCEPT !.args = args, !.effects = sent]
                   /\ UNCHANGED _committee_role
              ELSE IF GuildAvailable
              THEN \E v \in Refreshed(_committee_role, roles, "Committee") :
                      /\ _committee_role' = v
                      /\ last' = [Returned("send_error", _committee_role, v,
                                           NeedsLookup(_committee_role, roles))
                                    EXCEPT !.args = args, !.effects = sent]
              ELSE /\ last' = [Raised("send_error", _committee_role, "GuildDoesNotExist")
                                 EXCEPT !.args = args]
                   /\ UNCHANGED _committee_role
    /\ UNCHANGED <<guildVars, _guest_role, _member_role, _archivist_role,
                   _roles_channel, _general_channel, _welcome_channel, closed>>

\* ctx.value as the sequence of its characters: nothing typed, a "#", a
\* "#" and more, a plain name, and a "#" followed by a line break.
CtxValues == {<<>>, <<"#">>, <<"#", "g">>, <<"g">>, <<"#", "\n">>}

\* re.match(r"\A#.*\Z", value): a "#" and then no line break to the end.
MatchesHash(value) ==
    /\ Len(value) > 0
    /\ value[1] = "#"
    /\ \A i \in 2..Len(value) : value[i] # "\n"

OptionChoice(n, v) == [name |-> n, value |-> v]

\* Mutant: a choice carries the channel's name where its id belongs.
Choices_NameAsValue(value, permitted) ==
    IF Len(value) = 0 \/ MatchesHash(value)
    THEN {OptionChoice("#" \o text_channels[c], text_channels[c]) : c \in permitted}
    ELSE {OptionChoice(text_channels[c], text_channels[c]) : c \in permitted}

\* The choices built from the channels the limiter may view and send to.
Choices(value, permitted) ==
    IF Len(value) = 0 \/ MatchesHash(value)
    THEN {OptionChoice("#" \o text_channels[c], ToString(c)) : c \in permitted}
    ELSE {OptionChoice(text_channels[c], ToString(c)) : c \in permitted}

\* autocomplete_get_text_channels.  user: ctx.interaction.user is set;
\* is_member: guild.get_member finds that user, who then replaces the Guest
\* role as the limiter; permitted: the channels whose
\* permissions_for(limiter) include send_messages and view_channel (the
\* library's answer, any subset of the guild's text channels).
autocomplete_get_text_channels ==
    /\ ~closed
    /\ \E user \in BOOLEAN :
          LET result(limiter, lk, found) ==
                  [Returned("autocomplete_get_text_channels", _guest_role, limiter, lk)
                     EXCEPT !.args = <<user>>, !.choices = found]
          IN  IF ~user
              THEN /\ last' = result(None, FALSE, {})
                   /\ UNCHANGED _guest_role
              ELSE IF ~GuildAvailable
              THEN /\ last' = result(None, FALSE, {})
                   /\ UNCHANGED _guest_role
              ELSE \E limiter \in Refreshed(_guest_role, roles, "Guest") :
                      /\ _guest_role' = limiter
                      /\ IF limiter = None
                         THEN last' = result(None, NeedsLookup(_guest_role, roles), {})
                         ELSE \E is_member \in BOOLEAN, value \in CtxValues,
                                 permitted \in SUBSET DOMAIN text_channels :
                                 last' = result(limiter,
                                                NeedsLookup(_guest_role, roles),
                                                Choices(value, permitted))
    /\ UNCHANGED <<guildVars, _committee_role, _member_role, _archivist_role,
                   _roles_channel, _general_channel, _welcome_channel, closed>>

\* ---------------------------------------------------------- capture_error
Decorators == {"capture_guild_does_not_exist_error", "capture_strike_tracking_error"}

error_type(decorator) ==
    IF decorator = "capture_guild_does_not_exist_error" THEN "GuildDoesNotExist"
                                                         ELSE "StrikeTrackingError"

guild_does_not_exist_error_close_func == <<"logging.critical">>

strike_tracking_error_close_func ==
    guild_does_not_exist_error_close_func \o <<"logging.warning">>

close_func(decorator) ==
    <<"close_func">> \o
        (IF decorator = "capture_guild_does_not_exist_error"
         THEN guild_does_not_exist_error_close_func
         ELSE strike_tracking_error_close_func)

\* What the wrapped cog method may do: return its value or raise.
FuncOutcomes == {"return", "GuildDoesNotExist", "StrikeTrackingError", "ValueError"}

\* Mutant: both decorators capture GuildDoesNotExist.
Captured_GuildOnly(decorator, outcome) == outcome = "GuildDoesNotExist"

\* except error_type: the raised exception is an instance of that class.
Captured(decorator, outcome) == outcome = error_type(decorator)

\* The wrapper capture_error puts around a cog method.  is_cog: self is a
\* TeXBotCog; has_name: self has a __name__ for the TypeError's message
\* (reading a missing one raises AttributeError instead).  An effect "func"
\* is the call of the wrapped method; `value` is 1 when the wrapper passes
\* on that method's own value.
wrapper ==
    /\ ~closed
    /\ \E decorator \in Decorators, is_cog \in BOOLEAN :
          IF ~is_cog
          THEN /\ \E has_name \in BOOLEAN :
                     last' = [Raised("wrapper", None,
                                     IF has_name THEN "TypeError" ELSE "AttributeError")
                                EXCEPT !.args = <<decorator, "not called">>]
               /\ UNCHANGED closed
          ELSE \E outcome \in FuncOutcomes :
                 LET args == <<decorator, outcome>>
                 IN  IF outcome = "return"
                     THEN /\ last' = [Returned("wrapper", None, 1, FALSE)
                                        EXCEPT !.args = args, !.effects = <<"func">>]
                          /\ UNCHANGED closed
                     ELSE IF Captured(decorator, outcome)
                     THEN /\ last' = [Returned("wrapper", None, None, FALSE)
                                        EXCEPT !.args = args,
                                               !.effects = <<"func">>
                                                             \o close_func(decorator)
                                                             \o <<"bot.close">>]
                          /\ closed' = TRUE
                     ELSE /\ last' = [Raised("wrapper", None, outcome)
                                        EXCEPT !.args = args, !.effects = <<"func">>]
                          /\ UNCHANGED closed
    /\ UNCHANGED <<guildVars, cacheVars>>

\* ------------------------------------------------- the guild's own events
\* What the platform and the rest of the bot do to the state the accessors
\* read.  None of them touches a cache field.
Event == ~closed /\ last' = Idle /\ UNCHANGED <<cacheVars, closed>>

\* The gateway delivers the events of a guild only while the bot is in it.
GuildEvent == Event /\ DISCORD_GUILD_ID \in guilds

set_css_guild ==
    /\ Event
    /\ _css_guild = None
    /\ DISCORD_GUILD_ID \in guilds
    /\ _css_guild' = DISCORD_GUILD_ID
    /\ UNCHANGED <<guilds, roles, text_channels, rules_channel, nextId>>

guild_join ==
    /\ Event
    /\ DISCORD_GUILD_ID \notin guilds
    /\ guilds' = guilds \cup {DISCORD_GUILD_ID}
    /\ UNCHANGED <<_css_guild, roles, text_channels, rules_channel, nextId>>

guild_remove ==
    /\ Event
    /\ DISCORD_GUILD_ID \in guilds
    /\ guilds' = guilds \ {DISCORD_GUILD_ID}
    /\ UNCHANGED <<_css_guild, roles, text_channels, rules_channel, nextId>>

role_create ==
    /\ GuildEvent
    /\ nextId <= MaxId
    /\ \E n \in RoleNames : roles' = (nextId :> n) @@ roles
    /\ nextId' = nextId + 1
    /\ UNCHANGED <<guilds, _css_guild, text_channels, rules_channel>>

role_delete ==
    /\ GuildEvent
    /\ \E i \in DOMAIN roles : roles' = [j \in DOMAIN roles \ {i} |-> roles[j]]
    /\ UNCHANGED <<guilds, _css_guild, text_channels, rules_channel, nextId>>

role_update ==
    /\ GuildEvent
    /\ \E i \in DOMAIN roles : \E n \in RoleNames \ {roles[i]} :
          roles' = [roles EXCEPT ![i] = n]
    /\ UNCHANGED <<guilds, _css_guild, text_channels, rules_channel, nextId>>

channel_create ==
    /\ GuildEvent
    /\ nextId <= MaxId
    /\ \E n \in ChannelNames : text_channels' = (nextId :> n) @@ text_channels
    /\ nextId' = nextId + 1
    /\ UNCHANGED <<guilds, _css_guild, roles, rules_channel>>

channel_delete ==
    /\ GuildEvent
    /\ \E i \in DOMAIN text_channels :
          /\ text_channels' = [j \in DOMAIN text_channels \ {i} |-> text_channels[j]]
          /\ rules_channel' = IF rules_channel = i THEN None ELSE rules_channel
    /\ UNCHANGED <<guilds, _css_guild, roles, nextId>>

channel_update ==
    /\ GuildEvent
    /\ \E i \in DOMAIN text_channels : \E n \in ChannelNames \ {text_channels[i]} :
          text_channels' = [text_channels EXCEPT ![i] = n]
    /\ UNCHANGED <<guilds, _css_guild, roles, rules_channel, nextId>>

guild_update ==
    /\ GuildEvent
    /\ \E c \in (DOMAIN text_channels \cup {None}) \ {rules_channel} :
          rules_channel' = c
    /\ UNCHANGED <<guilds, _css_guild, roles, text_channels, nextId>>

\* ------------------------------------------------------------------ spec
Init ==
    /\ guilds = {}
    /\ _css_guild = None
    /\ roles = <<>>
    /\ text_channels = <<>>
    /\ rules_channel = None
    /\ nextId = 1
    /\ _committee_role = None
    /\ _guest_role = None
    /\ _member_role = None
    /\ _archivist_role = None
    /\ _roles_channel = None
    /\ _general_channel = None
    /\ _welcome_channel = None
    /\ closed = FALSE
    /\ last = Idle

Next ==
    \/ css_guild
    \/ committee_role
    \/ guest_role
    \/ member_role
    \/ archivist_role
    \/ roles_channel
    \/ general_channel
    \/ welcome_channel
    \/ send_error
    \/ autocomplete_get_text_channels
    \/ wrapper
    \/ set_css_guild
    \/ guild_join
    \/ guild_remove
    \/ role_create
    \/ role_delete
    \/ role_update
    \/ channel_create
    \/ channel_delete
    \/ channel_update
    \/ guild_update

Spec == Init /\ [][Next]_vars

\* The accessors alone, under every event of the guild.
NextCache ==
    \/ css_guild
    \/ committee_role
    \/ guest_role
    \/ member_role
    \/ archivist_role
    \/ roles_channel
    \/ general_channel
    \/ welcome_channel
    \/ set_css_guild
    \/ guild_join
    \/ guild_remove
    \/ role_create
    \/ role_delete
    \/ role_update
    \/ channel_create
    \/ channel_delete
    \/ channel_update
    \/ guild_update

SpecCache == Init /\ [][NextCache]_vars

\* The six accessors that look their object up by name alone, under the
\* events that change what they read.
NextNamed ==
    \/ css_guild
    \/ committee_role
    \/ guest_role
    \/ member_role
    \/ archivist_role
    \/ roles_channel
    \/ general_channel
    \/ set_css_guild
    \/ guild_join
    \/ guild_remove
    \/ role_create
    \/ role_delete
    \/ role_update
    \/ channel_create
    \/ channel_delete
    \/ channel_update

SpecNamed == Init /\ [][NextNamed]_vars

\* The cogs' helpers, with the two accessors they read, under every event
\* of the guild.
NextCog ==
    \/ send_error
    \/ autocomplete_get_text_channels
    \/ wrapper
    \/ committee_role
    \/ guest_role
    \/ set_css_guild
    \/ guild_join
    \/ guild_remove
    \/ role_create
    \/ role_delete
    \/ role_update
    \/ channel_create
    \/ channel_delete
    \/ channel_update

SpecCog == Init /\ [][NextCog]_vars
\* ================================================================ claims
RoleAccessors == {"committee_role", "guest_role", "member_role", "archivist_role"}
ChannelAccessors == {"roles_channel", "general_channel"}
NamedAccessors == RoleAccessors \cup ChannelAccessors
CachedAccessors == NamedAccessors \cup {"welcome_channel"}
GuildAccessors == CachedAccessors \cup {"css_guild"}

\* The guild's objects an accessor chooses among, and its own cache field.
GuildObjects(op) == IF op \in RoleAccessors THEN roles ELSE text_channels

CacheField(op) ==
    CASE op = "committee_role"  -> _committee_role
      [] op = "guest_role"      -> _guest_role
      [] op = "member_role"     -> _member_role
      [] op = "archivist_role"  -> _archivist_role
      [] op = "roles_channel"   -> _roles_channel
      [] op = "general_channel" -> _general_channel
      [] op = "welcome_channel" -> _welcome_channel

\* The guild is unavailable: _css_guild is unset, or the bot is in no guild
\* of the configured id.
GuildMissing == _css_guild = None \/ DISCORD_GUILD_ID \notin guilds

ReturnedBy(ops) == last.op \in ops /\ last.raised = "None"

\* How often, and where first, an effect occurs in the record of a call.
Count(e) == Cardinality({i \in DOMAIN last.effects : last.effects[i] = e})
First(e) == CHOOSE i \in DOMAIN last.effects :
               /\ last.effects[i] = e
               /\ \A j \in 1..(i - 1) : last.effects[j] # e

\* C1  Self-healing cache: with the guild available, a read of
\* committee_role, guest_role, member_role, archivist_role, roles_channel or
\* general_channel returns None or an object that is, as the read returns,
\* one of the guild's roles (text channels) by id; a cached object deleted
\* from the guild is never returned.
C1_SelfHealingCache ==
    (last.op \in NamedAccessors /\ ~GuildMissing) =>
        /\ last.raised = "None"
        /\ \/ last.value = None
           \/ last.value \in DOMAIN GuildObjects(last.op)

\* C1 witness: a read found in its cache an object the guild had deleted and
\* returned another object, one the guild holds.
C1_Witness ==
    /\ ReturnedBy(NamedAccessors)
    /\ last.cached # None
    /\ last.cached \notin DOMAIN GuildObjects(last.op)
    /\ last.value # None
    /\ last.value \in DOMAIN GuildObjects(last.op)

\* C2  Command abort: when the method wrapped by
\* capture_guild_does_not_exist_error or capture_strike_tracking_error
\* raises an exception of the decorator's error type, the wrapper calls
\* close_func once, then awaits bot.close() once, then returns None; the
\* exception does not reach the caller.
C2_CommandAbort ==
    ( /\ last.op = "wrapper"
      /\ Count("func") = 1
      /\ \/ last.args = <<"capture_guild_does_not_exist_error", "GuildDoesNotExist">>
         \/ last.args = <<"capture_strike_tracking_error", "StrikeTrackingError">> )
    =>
    ( /\ last.raised = "None"
      /\ last.value = None
      /\ Count("close_func") = 1
      /\ Count("bot.close") = 1
      /\ First("close_func") < First("bot.close")
      /\ last.effects[Len(last.effects)] = "bot.close"
      /\ closed )

\* C2 witness: a StrikeTrackingError raised under
\* capture_strike_tracking_error was captured and the bot closed.
C2_Witness ==
    /\ last.op = "wrapper"
    /\ last.args = <<"capture_strike_tracking_error", "StrikeTrackingError">>
    /\ Count("logging.warning") = 1
    /\ closed

\* C3  Fail-safe on a missing guild: while the guild is unavailable
\* (_css_guild unset, or no guild of DISCORD_GUILD_ID in bot.guilds) a read
\* of css_guild and of each of the seven cached accessors raises
\* GuildDoesNotExist, whatever its cache field holds, and leaves every
\* cache field as it was.
C3_FailSafe ==
    [][ (last'.op \in GuildAccessors /\ GuildMissing')
          => (last'.raised = "GuildDoesNotExist" /\ UNCHANGED cacheVars) ]_vars

\* C3 witness: the bot has left the guild, and a read of an accessor whose
\* cache field still holds an object raised.
C3_Witness ==
    /\ GuildMissing
    /\ last.op \in CachedAccessors
    /\ last.raised = "GuildDoesNotExist"
    /\ last.cached # None
    /\ CacheField(last.op) = last.cached

\* C4  Lazy refresh: a read that finds its cached object still among the
\* guild's objects (by id) returns that object, leaves the cache fields
\* alone and looks nothing up by name; and a read that directly follows a
\* read of the same accessor returns the same value.
C4_LazyRefresh ==
    [][ (last'.op \in CachedAccessors /\ last'.raised = "None") =>
          /\ (CacheField(last'.op) # None
                /\ CacheField(last'.op) \in DOMAIN GuildObjects(last'.op))
             => /\ last'.value = CacheField(last'.op)
                /\ ~last'.lookup
                /\ UNCHANGED cacheVars
          /\ last'.lookup
             => \/ CacheField(last'.op) = None
                \/ CacheField(last'.op) \notin DOMAIN GuildObjects(last'.op)
          /\ (last.op = last'.op /\ last.raised = "None")
             => last'.value = last.value ]_vars

\* C4 witness: a read answered from its cache while a second object of the
\* configured name was in the guild.
C4_Witness ==
    /\ ReturnedBy({"committee_role"})
    /\ ~last.lookup
    /\ last.cached # None
    /\ last.value = last.cached
    /\ \E i \in DOMAIN roles : i # last.value /\ roles[i] = "Committee"

\* C5  send_error always responds: every call, whatever its arguments and
\* whatever the state of the guild, ends with exactly one ephemeral
\* ctx.respond, and logs an error only when a logging message is given and
\* only after the response.
C5_SendErrorAlwaysResponds ==
    last.op = "send_error" =>
        /\ Count("ctx.respond(ephemeral=True)") = 1
        /\ Count("logging.error") = (IF last.args[2] THEN 1 ELSE 0)
        /\ Count("logging.error") = 1
           => First("ctx.respond(ephemeral=True)") < First("logging.error")

ConfiguredName(op) ==
    CASE op = "committee_role"  -> "Committee"
      [] op = "guest_role"      -> "Guest"
      [] op = "member_role"     -> "Member"
      [] op = "archivist_role"  -> "Archivist"
      [] op = "roles_channel"   -> "roles"
      [] op = "general_channel" -> "general"

\* C7 as claimed  Name consistency: with the guild available, an object
\* returned by one of the six named accessors bears the accessor's
\* configured name, also after the guild renamed a cached object.
C7_NameConsistency ==
    (ReturnedBy(NamedAccessors) /\ last.value # None)
        => /\ last.value \in DOMAIN GuildObjects(last.op)
           /\ GuildObjects(last.op)[last.value] = ConfiguredName(last.op)

\* C7 as amended  An object returned by one of the six named accessors
\* bears the configured name whenever the read looked it up by name (its
\* cache was empty or held an object no longer in the guild); an object
\* answered from the cache is returned under whatever name it has now.
C7_NameOnLookup ==
    (ReturnedBy(NamedAccessors) /\ last.value # None /\ last.lookup)
        => /\ last.value \in DOMAIN GuildObjects(last.op)
           /\ GuildObjects(last.op)[last.value] = ConfiguredName(last.op)

\* C7 witness: a read found a deleted object in its cache and looked up, by
\* name, the object the guild created afterwards.
C7_Witness ==
    /\ ReturnedBy(NamedAccessors)
    /\ last.lookup
    /\ last.cached # None
    /\ last.value # None
    /\ last.value # last.cached
====
